---- MODULE Spec2Model ----
(***************************************************************************)
(* GiftReservoir: wishlists, items and claims.                             *)
(*                                                                         *)
(* The store is the relational schema of shared/schema.ts (tables          *)
(* wishlists, items, claims with their identity columns, foreign keys with *)
(* ON DELETE CASCADE and unique constraints).  The operations are the      *)
(* Express handlers of server/routes.ts and the DatabaseStorage methods    *)
(* they call (server/storage.ts).  Every `await` of a handler on the store *)
(* is one step: single-statement handlers are one action, the claim        *)
(* handler is four (getItem, getClaim, owner lookup, insert) and the       *)
(* create-item handler two (getWishlist, insert), so that the requests in  *)
(* flight interleave between the statements.  A response is one more step  *)
(* (Deliver): while it is being sent the state shows it, together with the *)
(* store as the responding statement found it.                             *)
(*                                                                         *)
(* Of the columns only those the handlers branch on are kept, and          *)
(* claimedAt: description, url, price, imageUrl, createdAt and updatedAt   *)
(* are written and never read by the server, and are left out.  The        *)
(* store's clock is read by claim inserts only and is a logical clock: it  *)
(* advances with every read, so two inserts never get the same claimedAt.  *)
(*                                                                         *)
(* Sessions are outside this module: every request carries the identity    *)
(* isAuthenticated left in req.user.claims.sub, or none; a request with    *)
(* none is stopped by isAuthenticated on the routes registered with it.    *)
(*                                                                         *)
(* Four specifications share the actions.  Spec has the handlers that      *)
(* write the store.  SpecRead adds the three read routes (the list with    *)
(* its two count queries per wishlist, the owner's read and the share      *)
(* link, each lookup and each join a step) and the requests without a      *)
(* session.  SpecShare has the wishlist routes and the share link alone,   *)
(* with more wishlists, two creating users and share tokens that repeat.   *)
(* SpecFields has the wishlist and item routes alone, with two wishlists   *)
(* of two users and bodies that carry a userId or a wishlistId.            *)
(***************************************************************************)
EXTENDS Integers, FiniteSets, Bags, TLC

\* ---------------------------------------------------------------- bounds
\* identity sequences are capped and the requests in flight bounded
MaxWishlists == 1
MaxItems == 2
MaxClaims == 2
MaxConns == 2
\* the cap on wishlists.id where only the wishlist and share routes run
MaxSharedWishlists == 3
\* the cap on wishlists.id where only the wishlist and item routes run
MaxFieldWishlists == 2

\* ---------------------------------------------------------------- inputs
\* rows of the users table (upserted at sign-in, never deleted here)
Users == {"u1", "u2", "u3"}
\* the users who create wishlists; every user may send every other request
Owners == {"u1"}
\* request bodies: a name that passes z.string().min(1) and one that fails
Names == {"a", "b"}
BodyNames == Names \cup {""}
\* randomBytes(32).toString("hex")
Tokens == {"t1"}
\* path ids: numeric segments (parseInt gives a number, the isNaN guards,
\* which answer 400 before any store access, are passed)
WishlistParams == 1..MaxWishlists
ItemParams == 1..MaxItems
\* JSON bodies: with a name (valid or empty) and without one
NoFields == [f \in {} |-> ""]
WishlistBodies ==
    {[name |-> n] : n \in BodyNames} \cup {NoFields}
ItemBodies ==
    {[name |-> n] : n \in BodyNames} \cup {NoFields}
\* where only the wishlist and share routes run: two users create
\* wishlists, randomBytes may repeat a value, and a body may carry a
\* shareToken of its own
ShareOwners == {"u1", "u2"}
\* the :token of a share link, wherever the share route runs (a visitor
\* may send a token no wishlist has), and what randomBytes gives where
\* only the wishlist and share routes run
ShareTokens == {"t1", "t2"}
SharedWishlistParams == 1..MaxSharedWishlists
ShareBodies ==
    WishlistBodies \cup {[name |-> "b", shareToken |-> "t2"],
                         [shareToken |-> "t2"]}

\* where only the wishlist and item routes run: two wishlists, and bodies
\* that carry a userId or a wishlistId of their own
FieldWishlistParams == 1..MaxFieldWishlists
FieldWishlistBodies ==
    WishlistBodies \cup {[name |-> "b", userId |-> "u2"], [userId |-> "u2"]}
FieldItemBodies ==
    ItemBodies \cup {[name |-> "b", wishlistId |-> 2], [wishlistId |-> 2]}

VARIABLES
    wishlists,  \* rows of table wishlists: [id, userId, name, shareToken]
    items,      \* rows of table items:     [id, wishlistId, name]
    claims,     \* rows of table claims:    [id, itemId, userId, claimedAt]
    seqW,       \* last value of the identity sequence of wishlists.id
    seqI,       \* last value of the identity sequence of items.id
    seqC,       \* last value of the identity sequence of claims.id
    now,        \* the store's clock (defaultNow()), a logical clock
    inflight,   \* the handlers suspended at an await, a bag: the same
                \* request sent twice is two handlers
    last,       \* the response being sent, if one is
    released,   \* history: the claim the latest successful unclaim removed,
                \* kept while the store is as that unclaim left it
    retired     \* history: the id and share token of every deleted wishlist

vars ==
    <<wishlists, items, claims, seqW, seqI, seqC, now, inflight, last,
      released, retired>>

\* ------------------------------------------------------- requests
\* A request in flight: op/user/id are the route, req.user.claims.sub and
\* the parsed path id; name the validated body; pc the await the handler is
\* suspended at; item the handler's local `item`, of which the handler
\* reads wishlistId only.
Pending(op, u, id, name, pc, item) ==
    [op |-> op, user |-> u, id |-> id, name |-> name, pc |-> pc,
     item |-> item]

\* A response: status, the message of an error body (msg), the row of a
\* success body (body), and the exception the catch block logged (err).
\* pre is the store, and the history variable, as the responding statement
\* found them (history only).
Response(op, u, id, status, msg, err, body) ==
    [op |-> op, user |-> u, id |-> id, status |-> status, msg |-> msg,
     err |-> err, body |-> body,
     pre |-> [wishlists |-> wishlists, items |-> items, claims |-> claims,
              released |-> released]]

NoResponse ==
    [op |-> "none", user |-> "", id |-> 0, status |-> 0, msg |-> "",
     err |-> "none", body |-> {},
     pre |-> [wishlists |-> {}, items |-> {}, claims |-> {},
              released |-> {}]]

\* the suspended handlers, one of each kind
Requests == BagToSet(inflight)

\* a new request is accepted while fewer than MaxConns are in flight
Accept == last = NoResponse /\ BagCardinality(inflight) < MaxConns

\* a suspended handler resumes
Resume(r) == last = NoResponse /\ BagIn(r, inflight)

\* a handler is suspended at an await: it joins the handlers in flight,
\* beside any other handler of the same request at the same await
Suspend(r) == inflight' = inflight (+) SetToBag({r})

\* a handler answers and leaves
Finish(r) == inflight' = inflight (-) SetToBag({r})

\* ------------------------------------------------------- storage reads
\* a getWishlist that takes the branch without the user_id condition
getWishlistAnyUser(id, userId) == {w \in wishlists : w.id = id}

\* userId ? and(eq(id), eq(userId)) : eq(id): an empty or missing userId
\* leaves the user_id condition out
getWishlist(id, userId) ==
    IF userId # ""
    THEN {w \in wishlists : w.id = id /\ w.userId = userId}
    ELSE {w \in wishlists : w.id = id}

getWishlistById(id) == {w \in wishlists : w.id = id}

getItem(id) == {it \in items : it.id = id}

\* an existence check that never finds a claim
NoClaimFound(itemId) == {}

getClaim(itemId) == {c \in claims : c.itemId = itemId}

\* ------------------------------------------------------- constraints
\* share_token ... unique()
ShareTokenUnique(tok) == \A w \in wishlists : w.shareToken # tok

\* items.wishlist_id references wishlists.id
ItemFkOk(wishlistId) == \E w \in wishlists : w.id = wishlistId

\* claims.item_id references items.id
ClaimFkOk(itemId) == \E it \in items : it.id = itemId

\* a claims table without unique(item_id)
NoClaimItemUnique(itemId) == TRUE

\* claims.item_id ... unique()
ClaimItemUnique(itemId) == \A c \in claims : c.itemId # itemId

\* a foreign key without onDelete: "cascade": deleting wishlists keeps items
NoCascadeItems(ws) == items

\* a foreign key without onDelete: "cascade": deleting items keeps claims
NoCascadeClaims(its) == claims

\* onDelete: "cascade" of items.wishlist_id: the items left once the
\* wishlist rows ws are deleted
CascadeItems(ws) ==
    {it \in items : \A w \in ws : w.id # it.wishlistId}

\* a delete that takes every claim with it, whatever rows it matched
CascadeEveryClaim(its) == {}

\* onDelete: "cascade" of claims.item_id: the claims left once the item
\* rows its are deleted
CascadeClaims(its) ==
    {c \in claims : \A it \in its : it.id # c.itemId}

Init ==
    /\ wishlists = {}
    /\ items = {}
    /\ claims = {}
    /\ seqW = 0
    /\ seqI = 0
    /\ seqC = 0
    /\ now = 0
    /\ inflight = EmptyBag
    /\ last = NoResponse
    /\ released = {}
    /\ retired = {}

\* history: a successful unclaim records the claim it removed; any other
\* change of the store forgets it
Track ==
    /\ released' =
        IF <<wishlists', items', claims'>> = <<wishlists, items, claims>>
        THEN released
        ELSE IF last'.op = "unclaim"
        THEN {[itemId |-> last'.id, userId |-> last'.user]}
        ELSE {}
    /\ retired' = retired \cup
        {[id |-> w.id, token |-> w.shareToken] :
            w \in {x \in wishlists : \A y \in wishlists' : y.id # x.id}}

\* ------------------------------------------------------- validation
\* insertWishlistSchema / insertItemSchema: the keys left after .omit()
\* (of which the model keeps name); zod drops every other key of the body
\* a schema that .omit() left shareToken in
WishlistKeysWithToken == {"name", "shareToken"}

\* a schema that .omit() left userId in
WishlistKeysWithUserId == {"name", "userId"}

WishlistSchemaKeys == {"name"}

\* a schema that .omit() left wishlistId in
ItemKeysWithWishlistId == {"name", "wishlistId"}

ItemSchemaKeys == {"name"}

\* z.string().min(1, "Name is required"), required by safeParse
SchemaAccepts(body) == "name" \in DOMAIN body /\ body.name # ""

\* the same under .partial(): name may be absent
PartialSchemaAccepts(body) == "name" \in DOMAIN body => body.name # ""

\* fromZodError(validationResult.error).message
ValidationMessage(body) ==
    IF "name" \in DOMAIN body
    THEN "Validation error: Name is required at \"name\""
    ELSE "Validation error: Required at \"name\""

\* validationResult.data
Parsed(body, keys) == [f \in (DOMAIN body) \cap keys |-> body[f]]

\* .set({ ...data }) on a row
SetFields(row, data) ==
    [f \in DOMAIN row |-> IF f \in DOMAIN data THEN data[f] ELSE row[f]]

\* ------------------------------------------------------- storage writes
\* an updateWishlist / deleteWishlist without the user_id condition
WishlistRowsById(id, userId) == {w \in wishlists : w.id = id}

\* an updateItem / deleteItem without the owner subquery
ItemRowsById(id, wishlistUserId) == {it \in items : it.id = id}

\* rows matched by the where clause of updateWishlist / deleteWishlist
OwnedWishlistRows(id, userId) ==
    {w \in wishlists : w.id = id /\ w.userId = userId}

\* rows matched by the where clause of updateItem / deleteItem:
\* items.id = id AND wishlist_id IN (SELECT id FROM wishlists WHERE user_id = ..)
OwnedItemRows(id, wishlistUserId) ==
    {it \in items :
        /\ it.id = id
        /\ it.wishlistId \in
             {w.id : w \in {x \in wishlists : x.userId = wishlistUserId}}}

\* a deleteClaim without the user_id condition
AnyClaimRows(itemId, userId) == {c \in claims : c.itemId = itemId}

\* a deleteClaim without the item_id condition
ClaimRowsOfUser(itemId, userId) == {c \in claims : c.userId = userId}

\* rows matched by the where clause of deleteClaim
OwnClaimRows(itemId, userId) ==
    {c \in claims : c.itemId = itemId /\ c.userId = userId}

\* ------------------------------------------------------- wishlist routes
\* POST /api/wishlists
CreateWishlist(u, body, tok) ==
    /\ Accept
    /\ IF ~SchemaAccepts(body)
       THEN /\ last' = Response("createWishlist", u, 0, 400,
                                ValidationMessage(body), "none", {})
            /\ UNCHANGED <<wishlists, seqW>>
       ELSE /\ seqW' = seqW + 1
            /\ LET data == Parsed(body, WishlistSchemaKeys)
                   row == [id |-> seqW + 1, userId |-> u, name |-> data.name,
                           shareToken |-> tok]
               IN IF ShareTokenUnique(tok)
                  THEN /\ wishlists' = wishlists \cup {row}
                       /\ last' = Response("createWishlist", u, 0, 201, "",
                                           "none", {row})
                  ELSE /\ wishlists' = wishlists
                       /\ last' = Response("createWishlist", u, 0, 500,
                                           "Failed to create wishlist",
                                           "unique", {})
    /\ UNCHANGED <<items, claims, seqI, seqC, now, inflight>>
    /\ Track

\* PATCH /api/wishlists/:id
UpdateWishlist(u, id, body) ==
    /\ Accept
    /\ IF ~PartialSchemaAccepts(body)
       THEN /\ last' = Response("updateWishlist", u, id, 400,
                                ValidationMessage(body), "none", {})
            /\ UNCHANGED wishlists
       ELSE LET rows == OwnedWishlistRows(id, u)
                data == Parsed(body, WishlistSchemaKeys)
                new == {SetFields(w, data) : w \in rows}
            IN /\ wishlists' = (wishlists \ rows) \cup new
               /\ last' = IF new = {}
                          THEN Response("updateWishlist", u, id, 404,
                                        "Wishlist not found", "none", {})
                          ELSE Response("updateWishlist", u, id, 200, "",
                                        "none", new)
    /\ UNCHANGED <<items, claims, seqW, seqI, seqC, now, inflight>>
    /\ Track

\* DELETE /api/wishlists/:id
DeleteWishlist(u, id) ==
    /\ Accept
    /\ LET rows == OwnedWishlistRows(id, u)
           kept == CascadeItems(rows)
       IN /\ wishlists' = wishlists \ rows
          /\ items' = kept
          /\ claims' = CascadeClaims(items \ kept)
          /\ last' = IF rows = {}
                     THEN Response("deleteWishlist", u, id, 404,
                                   "Wishlist not found", "none", {})
                     ELSE Response("deleteWishlist", u, id, 204, "", "none",
                                   {})
    /\ UNCHANGED <<seqW, seqI, seqC, now, inflight>>
    /\ Track

\* ------------------------------------------------------- item routes
\* POST /api/wishlists/:wishlistId/items, up to the await of createItem
CreateItemCheck(u, wid, body) ==
    /\ Accept
    /\ IF getWishlist(wid, u) = {}
       THEN /\ last' = Response("createItem", u, wid, 404,
                                "Wishlist not found", "none", {})
            /\ UNCHANGED inflight
       ELSE IF ~SchemaAccepts(body)
       THEN /\ last' = Response("createItem", u, wid, 400,
                                ValidationMessage(body), "none", {})
            /\ UNCHANGED inflight
       ELSE LET r == Pending("createItem", u, wid,
                             Parsed(body, ItemSchemaKeys).name, "insert", {})
            IN /\ Suspend(r)
               /\ UNCHANGED last
    /\ UNCHANGED <<wishlists, items, claims, seqW, seqI, seqC, now>>
    /\ Track

\* storage.createItem({ ...data, wishlistId }) and the response; a
\* constraint violation throws and the catch block answers 500
CreateItemInsert(r) ==
    /\ Resume(r)
    /\ r.op = "createItem"
    /\ r.pc = "insert"
    /\ seqI < MaxItems
    /\ seqI' = seqI + 1
    /\ Finish(r)
    /\ LET row == [id |-> seqI + 1, wishlistId |-> r.id, name |-> r.name]
       IN IF ItemFkOk(r.id)
          THEN /\ items' = items \cup {row}
               /\ last' = Response("createItem", r.user, r.id, 201, "",
                                   "none", {row})
          ELSE /\ items' = items
               /\ last' = Response("createItem", r.user, r.id, 500,
                                   "Failed to create item", "fk", {})
    /\ UNCHANGED <<wishlists, claims, seqW, seqC, now>>
    /\ Track

\* PATCH /api/items/:id
UpdateItem(u, id, body) ==
    /\ Accept
    /\ IF ~PartialSchemaAccepts(body)
       THEN /\ last' = Response("updateItem", u, id, 400,
                                ValidationMessage(body), "none", {})
            /\ UNCHANGED items
       ELSE LET rows == OwnedItemRows(id, u)
                data == Parsed(body, ItemSchemaKeys)
                new == {SetFields(it, data) : it \in rows}
            IN /\ items' = (items \ rows) \cup new
               /\ last' = IF new = {}
                          THEN Response("updateItem", u, id, 404,
                                        "Item not found", "none", {})
                          ELSE Response("updateItem", u, id, 200, "", "none",
                                        new)
    /\ UNCHANGED <<wishlists, claims, seqW, seqI, seqC, now, inflight>>
    /\ Track

\* DELETE /api/items/:id
DeleteItem(u, id) ==
    /\ Accept
    /\ LET rows == OwnedItemRows(id, u)
       IN /\ items' = items \ rows
          /\ claims' = CascadeClaims(rows)
          /\ last' = IF rows = {}
                     THEN Response("deleteItem", u, id, 404,
                                   "Item not found", "none", {})
                     ELSE Response("deleteItem", u, id, 204, "", "none", {})
    /\ UNCHANGED <<wishlists, seqW, seqI, seqC, now, inflight>>
    /\ Track

\* ------------------------------------------------------- claim routes
\* a handler without the own-wishlist check
NeverOwnWishlist(ws, userId) == FALSE

\* a handler that takes every requester for the owner
EveryWishlistOwn(ws, userId) == ws # {}

\* wishlist && wishlist.userId === userId
IsOwnWishlist(ws, userId) == \E w \in ws : w.userId = userId

\* a handler moves from one await to the next
Advance(r, pc) ==
    LET n == [r EXCEPT !.pc = pc]
    IN /\ inflight' = (inflight (-) SetToBag({r})) (+) SetToBag({n})
       /\ UNCHANGED last

\* POST /api/items/:itemId/claim, up to `await storage.getItem(itemId)`
ClaimGetItem(u, id) ==
    /\ Accept
    /\ IF getItem(id) = {}
       THEN /\ last' = Response("claim", u, id, 404, "Item not found",
                                "none", {})
            /\ UNCHANGED inflight
       ELSE LET r == Pending("claim", u, id, "", "getClaim",
                             {[wishlistId |-> it.wishlistId] :
                                 it \in getItem(id)})
            IN /\ Suspend(r)
               /\ UNCHANGED last
    /\ UNCHANGED <<wishlists, items, claims, seqW, seqI, seqC, now>>
    /\ Track

\* `await storage.getClaim(itemId)` and the already-claimed check
ClaimGetClaim(r) ==
    /\ Resume(r)
    /\ r.op = "claim"
    /\ r.pc = "getClaim"
    /\ IF getClaim(r.id) # {}
       THEN /\ Finish(r)
            /\ last' = Response("claim", r.user, r.id, 400,
                                "Item is already claimed", "none", {})
       ELSE Advance(r, "getOwner")
    /\ UNCHANGED <<wishlists, items, claims, seqW, seqI, seqC, now>>
    /\ Track

\* the select of the item's wishlist and the own-wishlist check
ClaimGetOwner(r) ==
    /\ Resume(r)
    /\ r.op = "claim"
    /\ r.pc = "getOwner"
    /\ LET ws == UNION {getWishlistById(it.wishlistId) : it \in r.item}
       IN IF IsOwnWishlist(ws, r.user)
          THEN /\ Finish(r)
               /\ last' = Response("claim", r.user, r.id, 400,
                              "You cannot claim items from your own wishlist",
                              "none", {})
          ELSE Advance(r, "insert")
    /\ UNCHANGED <<wishlists, items, claims, seqW, seqI, seqC, now>>
    /\ Track

\* `await storage.createClaim({ itemId, userId })` and the response; a
\* constraint violation throws and the catch block answers 500
ClaimInsert(r) ==
    /\ Resume(r)
    /\ r.op = "claim"
    /\ r.pc = "insert"
    /\ seqC < MaxClaims
    /\ seqC' = seqC + 1
    /\ now' = now + 1
    /\ Finish(r)
    /\ LET row == [id |-> seqC + 1, itemId |-> r.id, userId |-> r.user,
                   claimedAt |-> now]
       IN IF ~ClaimFkOk(r.id)
          THEN /\ claims' = claims
               /\ last' = Response("claim", r.user, r.id, 500,
                                   "Failed to claim item", "fk", {})
          ELSE IF ~ClaimItemUnique(r.id)
          THEN /\ claims' = claims
               /\ last' = Response("claim", r.user, r.id, 500,
                                   "Failed to claim item", "unique", {})
          ELSE /\ claims' = claims \cup {row}
               /\ last' = Response("claim", r.user, r.id, 201, "", "none",
                                   {row})
    /\ UNCHANGED <<wishlists, items, seqW, seqI>>
    /\ Track

\* DELETE /api/items/:itemId/claim
Unclaim(u, id) ==
    /\ Accept
    /\ LET rows == OwnClaimRows(id, u)
       IN /\ claims' = claims \ rows
          /\ last' = IF rows = {}
                     THEN Response("unclaim", u, id, 404, "Claim not found",
                                   "none", {})
                     ELSE Response("unclaim", u, id, 204, "", "none", {})
    /\ UNCHANGED <<wishlists, items, seqW, seqI, seqC, now, inflight>>
    /\ Track

\* ------------------------------------------------------- read routes
\* A read in flight: held is what the handler keeps in its locals
Reading(op, u, id, pc, held) ==
    [op |-> op, user |-> u, id |-> id, pc |-> pc, held |-> held]

\* a users table without rows
NoUserRows == {}

\* rows of the users table: the claimant records the joins return
UserRows == {[id |-> u, email |-> <<u, "example.org">>] : u \in Users}

\* a select that leaves the user_id condition out
AllWishlists(userId) == wishlists

getWishlists(userId) == {w \in wishlists : w.userId = userId}

\* a lookup that leaves the share_token condition out
AnyWishlistForToken(token) == wishlists

getWishlistByShareToken(token) == {w \in wishlists : w.shareToken = token}

\* a join that leaves the claims out
ItemsWithoutClaims(wishlistId) ==
    {[item |-> it, claim |-> {}] :
        it \in {x \in items : x.wishlistId = wishlistId}}

\* items LEFT JOIN claims LEFT JOIN users WHERE items.wishlist_id = ..,
\* and formattedItems: each item with its claim and the claim's user
ItemsWithClaims(wishlistId) ==
    {[item |-> it,
      claim |-> {[claim |-> c, user |-> usr] :
                    <<c, usr>> \in
                       {p \in claims \X UserRows :
                           p[1].itemId = it.id /\ p[2].id = p[1].userId}}] :
        it \in {x \in items : x.wishlistId = wishlistId}}

\* select count() from items where wishlist_id = ..
CountItems(wishlistId) ==
    Cardinality({it \in items : it.wishlistId = wishlistId})

\* select count() from items inner join claims where wishlist_id = ..
CountClaimed(wishlistId) ==
    Cardinality({p \in items \X claims :
                    p[1].id = p[2].itemId /\ p[1].wishlistId = wishlistId})

\* GET /api/wishlists/:id, up to `await storage.getWishlist(..)`
ReadWishlistLookup(u, id) ==
    /\ Accept
    /\ IF getWishlist(id, u) = {}
       THEN /\ last' = Response("getWishlist", u, id, 404,
                                "Wishlist not found", "none", {})
            /\ UNCHANGED inflight
       ELSE LET r == Reading("getWishlist", u, id, "items",
                             getWishlist(id, u))
            IN /\ Suspend(r)
               /\ UNCHANGED last
    /\ UNCHANGED <<wishlists, items, claims, seqW, seqI, seqC, now>>
    /\ Track

\* the join on the items of the wishlist and the response
ReadWishlistItems(r) ==
    /\ Resume(r)
    /\ r.op = "getWishlist"
    /\ Finish(r)
    /\ last' = Response("getWishlist", r.user, r.id, 200, "", "none",
                        {[wishlist |-> w, items |-> ItemsWithClaims(r.id)] :
                            w \in r.held})
    /\ UNCHANGED <<wishlists, items, claims, seqW, seqI, seqC, now>>
    /\ Track

\* GET /api/wishlists/shared/:token, up to getWishlistByShareToken; the
\* route has no middleware and the handler reads no identity
SharedLookup(token) ==
    /\ Accept
    /\ IF getWishlistByShareToken(token) = {}
       THEN /\ last' = Response("getShared", "", token, 404,
                                "Wishlist not found", "none", {})
            /\ UNCHANGED inflight
       ELSE LET r == Reading("getShared", "", token, "items",
                             getWishlistByShareToken(token))
            IN /\ Suspend(r)
               /\ UNCHANGED last
    /\ UNCHANGED <<wishlists, items, claims, seqW, seqI, seqC, now>>
    /\ Track

\* the join on the items of wishlist.id and the response
SharedItems(r) ==
    /\ Resume(r)
    /\ r.op = "getShared"
    /\ Finish(r)
    /\ last' = Response("getShared", "", r.id, 200, "", "none",
                        {[wishlist |-> w, items |-> ItemsWithClaims(w.id)] :
                            w \in r.held})
    /\ UNCHANGED <<wishlists, items, claims, seqW, seqI, seqC, now>>
    /\ Track

\* GET /api/wishlists, up to `await storage.getWishlists(userId)`; each
\* wishlist then waits for its first count query; Promise.all of no
\* wishlists is answered without another query
ListWishlists(u) ==
    /\ Accept
    /\ IF getWishlists(u) = {}
       THEN /\ last' = Response("listWishlists", u, 0, 200, "", "none", {})
            /\ UNCHANGED inflight
       ELSE LET r == Reading("listWishlists", u, 0, "counts",
                             {[wishlist |-> w, pc |-> "itemCount",
                               itemCount |-> 0, claimedCount |-> 0,
                               claimedThen |-> 0] :
                                 w \in getWishlists(u)})
            IN /\ Suspend(r)
               /\ UNCHANGED last
    /\ UNCHANGED <<wishlists, items, claims, seqW, seqI, seqC, now>>
    /\ Track

\* one count query of one wishlist of the list; with the last one
\* Promise.all resolves and the response goes out (claimedThen is history:
\* the claimed items at the time of the first query)
ListCount(r, h) ==
    /\ Resume(r)
    /\ r.op = "listWishlists"
    /\ h \in r.held
    /\ h.pc # "done"
    /\ LET n == IF h.pc = "itemCount"
                THEN [h EXCEPT !.pc = "claimedCount",
                               !.itemCount = CountItems(h.wishlist.id),
                               !.claimedThen = CountClaimed(h.wishlist.id)]
                ELSE [h EXCEPT !.pc = "done",
                               !.claimedCount = CountClaimed(h.wishlist.id)]
           held == (r.held \ {h}) \cup {n}
       IN IF \A x \in held : x.pc = "done"
          THEN /\ Finish(r)
               /\ last' = Response("listWishlists", r.user, 0, 200, "",
                                   "none",
                                   {[wishlist |-> x.wishlist,
                                     itemCount |-> x.itemCount,
                                     claimedCount |-> x.claimedCount] :
                                       x \in held})
          ELSE LET m == [r EXCEPT !.held = held]
               IN /\ inflight' =
                        (inflight (-) SetToBag({r})) (+) SetToBag({m})
                  /\ UNCHANGED last
    /\ UNCHANGED <<wishlists, items, claims, seqW, seqI, seqC, now>>
    /\ Track

\* ------------------------------------------------------- middleware
\* a request without a session
Anonymous == ""

\* the routes, by the op of their responses
Routes ==
    {"listWishlists", "getWishlist", "getShared", "createWishlist",
     "updateWishlist", "deleteWishlist", "createItem", "updateItem",
     "deleteItem", "claim", "unclaim"}

\* no route names the isAuthenticated middleware
NoneProtected(op) == FALSE

\* every route names the isAuthenticated middleware
AllProtected(op) == TRUE

\* the routes registered with the isAuthenticated middleware
Protected(op) == op \in Routes \ {"getShared"}

\* the routes whose handler reads req.user.claims.sub
ReadsIdentity(op) == op \in Routes \ {"getShared"}

\* the message of the route's catch block
FailureMessage(op) ==
    CASE op = "listWishlists" -> "Failed to fetch wishlists"
      [] op \in {"getWishlist", "getShared"} -> "Failed to fetch wishlist"
      [] op = "createWishlist" -> "Failed to create wishlist"
      [] op = "updateWishlist" -> "Failed to update wishlist"
      [] op = "deleteWishlist" -> "Failed to delete wishlist"
      [] op = "createItem" -> "Failed to create item"
      [] op = "updateItem" -> "Failed to update item"
      [] op = "deleteItem" -> "Failed to delete item"
      [] op = "claim" -> "Failed to claim item"
      [] op = "unclaim" -> "Failed to unclaim item"

\* isAuthenticated: a request with a session passes to the handler, one
\* without is answered 401
isAuthenticated(u) == u # Anonymous

\* a request without a session: the middleware, where the route has it,
\* answers 401 and the handler is not entered; a handler entered without
\* a session throws at req.user.claims.sub and its catch block answers 500
Unauthenticated(op) ==
    /\ Accept
    /\ ~isAuthenticated(Anonymous)
    /\ Protected(op) \/ ReadsIdentity(op)
    /\ last' = IF Protected(op)
               THEN Response(op, Anonymous, 0, 401, "", "none", {})
               ELSE Response(op, Anonymous, 0, 500, FailureMessage(op),
                             "type", {})
    /\ UNCHANGED <<wishlists, items, claims, seqW, seqI, seqC, now, inflight>>
    /\ Track

\* res.status(..).json(..) / .send(): the response leaves
Deliver ==
    /\ last # NoResponse
    /\ last' = NoResponse
    /\ UNCHANGED <<wishlists, items, claims, seqW, seqI, seqC, now, inflight>>
    /\ Track

\* ------------------------------------------------------- specification
Next ==
    \/ Deliver
    \/ \E u \in Owners, b \in WishlistBodies, t \in Tokens :
         /\ SchemaAccepts(b) => seqW < MaxWishlists
         /\ CreateWishlist(u, b, t)
    \/ \E u \in Users, id \in WishlistParams, b \in WishlistBodies :
         UpdateWishlist(u, id, b)
    \/ \E u \in Users, id \in WishlistParams : DeleteWishlist(u, id)
    \/ \E u \in Users, id \in WishlistParams, b \in ItemBodies :
         CreateItemCheck(u, id, b)
    \/ \E r \in Requests : CreateItemInsert(r)
    \/ \E u \in Users, id \in ItemParams, b \in ItemBodies :
         UpdateItem(u, id, b)
    \/ \E u \in Users, id \in ItemParams : DeleteItem(u, id)
    \/ \E u \in Users, id \in ItemParams : ClaimGetItem(u, id)
    \/ \E r \in Requests : ClaimGetClaim(r)
    \/ \E r \in Requests : ClaimGetOwner(r)
    \/ \E r \in Requests : ClaimInsert(r)
    \/ \E u \in Users, id \in ItemParams : Unclaim(u, id)

Spec == Init /\ [][Next]_vars

\* all routes: the read routes and the requests without a session beside
\* the others
NextRead ==
    \/ \E u \in Users, id \in WishlistParams : ReadWishlistLookup(u, id)
    \/ \E r \in Requests : ReadWishlistItems(r)
    \/ \E t \in ShareTokens : SharedLookup(t)
    \/ \E r \in Requests : SharedItems(r)
    \/ \E u \in Users : ListWishlists(u)
    \/ \E op \in Routes : Unauthenticated(op)
    \/ \E r \in {x \in Requests : x.op = "listWishlists"} :
         \E h \in r.held : ListCount(r, h)
    \/ Next

SpecRead == Init /\ [][NextRead]_vars

\* the wishlist routes and the share link alone, with more wishlists and
\* tokens: no other route writes table wishlists
NextShare ==
    \/ Deliver
    \/ \E u \in ShareOwners, b \in ShareBodies, t \in ShareTokens :
         /\ SchemaAccepts(b) => seqW < MaxSharedWishlists
         /\ CreateWishlist(u, b, t)
    \/ \E u \in ShareOwners, id \in SharedWishlistParams, b \in ShareBodies :
         UpdateWishlist(u, id, b)
    \/ \E u \in ShareOwners, id \in SharedWishlistParams :
         DeleteWishlist(u, id)
    \/ \E t \in ShareTokens : SharedLookup(t)
    \/ \E r \in Requests : SharedItems(r)

SpecShare == Init /\ [][NextShare]_vars

\* the wishlist and item routes alone, with two wishlists of two users:
\* no other route writes the columns of a wishlist or of an item
NextFields ==
    \/ Deliver
    \/ \E u \in ShareOwners, b \in FieldWishlistBodies, t \in ShareTokens :
         /\ SchemaAccepts(b) => seqW < MaxFieldWishlists
         /\ CreateWishlist(u, b, t)
    \/ \E u \in ShareOwners, id \in FieldWishlistParams,
          b \in FieldWishlistBodies :
         UpdateWishlist(u, id, b)
    \/ \E u \in ShareOwners, id \in FieldWishlistParams :
         DeleteWishlist(u, id)
    \/ \E u \in ShareOwners, id \in FieldWishlistParams,
          b \in FieldItemBodies :
         CreateItemCheck(u, id, b)
    \/ \E r \in Requests : CreateItemInsert(r)
    \/ \E u \in ShareOwners, id \in ItemParams, b \in FieldItemBodies :
         UpdateItem(u, id, b)
    \/ \E u \in ShareOwners, id \in ItemParams : DeleteItem(u, id)

SpecFields == Init /\ [][NextFields]_vars

\* ------------------------------------------------------- messages
AlreadyClaimed == "Item is already claimed"
SelfClaimForbidden == "You cannot claim items from your own wishlist"
ClaimNotFound == "Claim not found"

\* ------------------------------------------------------- properties
\* C1: in every reachable state, whatever the interleaving of the requests,
\* each item has at most one claim row.
AtMostOneClaimPerItem ==
    \A c1 \in claims : \A c2 \in claims : c1.itemId = c2.itemId => c1 = c2

\* a second insert for a claimed item has just been rejected by the store
SecondClaimRejected ==
    /\ last.op = "claim"
    /\ last.err = "unique"
    /\ \E c \in claims : c.itemId = last.id /\ c.userId # last.user

\* C3: in every reachable state the claimer of every claim differs from the
\* owner of the wishlist that contains the claimed item.
ClaimerIsNotOwner ==
    \A c \in claims : \A it \in items : \A w \in wishlists :
        (it.id = c.itemId /\ w.id = it.wishlistId) => w.userId # c.userId

\* the owner's claim on an item of their own wishlist has just been refused
\* while a claim of another user is in the store
OwnerRefusedBesideClaim ==
    /\ last.op = "claim"
    /\ last.msg = SelfClaimForbidden
    /\ \E w \in wishlists : w.userId = last.user
    /\ claims # {}

\* C9: every item references an existing wishlist and every claim an
\* existing item, in every reachable state; and right after a successful
\* wishlist deletion the wishlist, its items and their claims are gone.
NoOrphans ==
    /\ \A it \in items : \E w \in wishlists : w.id = it.wishlistId
    /\ \A c \in claims : \E it \in items : it.id = c.itemId
    /\ (last.op = "deleteWishlist" /\ last.status = 204) =>
          /\ \A w \in wishlists : w.id # last.id
          /\ \A it \in items : it.wishlistId # last.id
          /\ \A c \in claims : \A it \in last.pre.items :
                it.wishlistId = last.id => c.itemId # it.id

\* a wishlist with a claimed item has just been deleted while a claim
\* request for one of its items is suspended before its insert
DeletedUnderRequests ==
    /\ last.op = "deleteWishlist"
    /\ last.status = 204
    /\ \E it \in last.pre.items : \E c \in last.pre.claims :
          it.wishlistId = last.id /\ c.itemId = it.id
    /\ \E r \in Requests : \E it \in last.pre.items :
          r.op = "claim" /\ r.pc = "insert" /\ r.id = it.id


\* the requester of the response owns, in the store the responding
\* statement found, the wishlist of the item the response is about
ByOwnerOfItem ==
    \E it \in last.pre.items : \E w \in last.pre.wishlists :
        it.id = last.id /\ w.id = it.wishlistId /\ w.userId = last.user

\* C2: when claim requests of distinct users who do not own the wishlist
\* run concurrently for one existing item, the request whose insert the
\* store rejects because another one inserted first is answered 400
\* AlreadyClaimed, like every request that finds the item claimed: the
\* uniqueness violation is never answered 500.
LosingClaimIsAlreadyClaimed ==
    ( /\ last.op = "claim"
      /\ ~ByOwnerOfItem
      /\ \E it \in last.pre.items : it.id = last.id
      /\ \E c \in last.pre.claims : c.itemId = last.id )
    => (last.status = 400 /\ last.msg = AlreadyClaimed)

\* C4 as stated: every claim request of the owner on an existing item of
\* their own wishlist is answered SelfClaimForbidden, claimed or not.
OwnerClaimIsSelfClaimForbidden ==
    (last.op = "claim" /\ ByOwnerOfItem)
    => (last.status = 400 /\ last.msg = SelfClaimForbidden)

\* C4: every claim request of the owner on an existing item of their own
\* wishlist is refused with 400 and changes nothing; the refusal is
\* AlreadyClaimed only if the item has a claim, and SelfClaimForbidden
\* otherwise.
OwnerClaimIsRefused ==
    (last.op = "claim" /\ ByOwnerOfItem)
    => /\ last.status = 400
       /\ last.msg \in {AlreadyClaimed, SelfClaimForbidden}
       /\ last.msg = AlreadyClaimed =>
             \E c \in last.pre.claims : c.itemId = last.id
       /\ <<wishlists, items, claims>> =
             <<last.pre.wishlists, last.pre.items, last.pre.claims>>

\* the owner's claim on their own item, claimed by another user, has just
\* been refused as AlreadyClaimed
OwnerToldAlreadyClaimed ==
    /\ last.op = "claim"
    /\ ByOwnerOfItem
    /\ last.msg = AlreadyClaimed
    /\ \E c \in claims : c.itemId = last.id /\ c.userId # last.user

\* C5: a claim request whose existence check finds a claim on the item is
\* answered 400 AlreadyClaimed, and the claims (claimer and claimedAt of
\* the existing one included) stay as they were.
ClaimOnClaimedItemRefused ==
    [][\A r \in Requests :
         ( /\ r.op = "claim"
           /\ r.pc = "getClaim"
           /\ CopiesIn(r, inflight') < CopiesIn(r, inflight)
           /\ \E c \in claims : c.itemId = r.id )
         => /\ last'.op = "claim"
            /\ last'.user = r.user
            /\ last'.id = r.id
            /\ last'.status = 400
            /\ last'.msg = AlreadyClaimed
            /\ claims' = claims]_vars

\* a claim request for an item claimed by another user has just been
\* refused, and the claim is still the one the request found
RefusedBesideExistingClaim ==
    /\ last.op = "claim"
    /\ last.status = 400
    /\ last.msg = AlreadyClaimed
    /\ ~ByOwnerOfItem
    /\ \E c \in last.pre.claims :
          c.itemId = last.id /\ c.userId # last.user /\ c \in claims

\* C6: after A's successful unclaim of an item the item exists and has no
\* claim, and a claim request of another user B who does not own the
\* wishlist, answered while the store is as the unclaim left it, is
\* answered 201; the item's claim is then the returned one, with claimer B.
ClaimAfterUnclaimSucceeds ==
    /\ \A rel \in released :
          /\ \E it \in items : it.id = rel.itemId
          /\ \A c \in claims : c.itemId # rel.itemId
    /\ \A rel \in last.pre.released :
          ( /\ last.op = "claim"
            /\ last.id = rel.itemId
            /\ last.user # rel.userId
            /\ ~ByOwnerOfItem )
          => /\ last.status = 201
             /\ claims = last.pre.claims \cup last.body
             /\ \E c \in claims : c.itemId = last.id
             /\ \A c \in claims : c.itemId = last.id => c.userId = last.user

\* B's claim has just succeeded on the item A's unclaim released
ClaimedAfterUnclaim ==
    /\ last.op = "claim"
    /\ last.status = 201
    /\ \E rel \in last.pre.released :
          rel.itemId = last.id /\ rel.userId # last.user
    /\ \E c \in claims : c.itemId = last.id /\ c.userId = last.user

\* C7: unclaim removes exactly the claim with the request's item id and
\* user id and answers 204; when there is none (no claim on the item, or a
\* claim of another user) it answers one and the same 404 and the claims
\* stay as they were.
UnclaimOnlyOwnClaim ==
    last.op = "unclaim" =>
        LET mine == {c \in last.pre.claims :
                        c.itemId = last.id /\ c.userId = last.user}
        IN IF mine = {}
           THEN /\ last.status = 404
                /\ last.msg = ClaimNotFound
                /\ last.body = {}
                /\ claims = last.pre.claims
           ELSE /\ last.status = 204
                /\ claims = last.pre.claims \ mine

\* an unclaim of an item claimed by another user has just been answered 404
UnclaimOfOthersClaimRefused ==
    /\ last.op = "unclaim"
    /\ last.status = 404
    /\ \E c \in claims : c.itemId = last.id /\ c.userId # last.user

\* C8: a claim of u on an item stays in the store, row for row, in every
\* step but u's own successful unclaim of that item and the deletion of the
\* item (alone or with its wishlist); no step replaces it by another claim
\* on the item.
ClaimStaysUntilReleased ==
    [][\A c \in claims :
         \/ c \in claims'
         \/ /\ \A d \in claims' : d.itemId # c.itemId
            /\ \/ \A it \in items' : it.id # c.itemId
               \/ /\ last'.op = "unclaim"
                  /\ last'.status = 204
                  /\ last'.user = c.userId
                  /\ last'.id = c.itemId]_vars

\* the wishlist owner's unclaim of an item claimed by another user has just
\* been refused and the claim is still there
OwnerUnclaimRefused ==
    /\ last.op = "unclaim"
    /\ last.status = 404
    /\ ByOwnerOfItem
    /\ \E c \in claims : c.itemId = last.id

\* C10: the owner's delete of an item is answered 204 whether or not the
\* item is claimed; the item and its claim are gone and every other item,
\* claim and wishlist is as it was.
OwnerDeletesItem ==
    (last.op = "deleteItem" /\ ByOwnerOfItem)
    => /\ last.status = 204
       /\ items = {it \in last.pre.items : it.id # last.id}
       /\ claims = {c \in last.pre.claims : c.itemId # last.id}
       /\ wishlists = last.pre.wishlists

\* the owner has just deleted a claimed item while another item of the
\* wishlist is claimed too
ClaimedItemDeleted ==
    /\ last.op = "deleteItem"
    /\ last.status = 204
    /\ \E c \in last.pre.claims : c.itemId = last.id
    /\ \E c \in claims : \E it \in items : c.itemId = it.id

\* ------------------------------------------------------- ownership
WishlistNotFound == "Wishlist not found"
ItemNotFound == "Item not found"

\* the store is as the responding statement found it
StoreAsFound ==
    <<wishlists, items, claims>> =
        <<last.pre.wishlists, last.pre.items, last.pre.claims>>

\* C11: an update or delete of a wishlist (with a body that passes
\* validation) takes effect iff the requester owns the wishlist; for any
\* other user the store stays as it was and the answer is the 404 a
\* wishlist id that does not exist gets.
WishlistMutationOwnerOnly ==
    (last.op \in {"updateWishlist", "deleteWishlist"}) =>
        LET owned == {w \in last.pre.wishlists :
                         w.id = last.id /\ w.userId = last.user}
        IN IF last.status = 400
           THEN last.op = "updateWishlist" /\ StoreAsFound
           ELSE IF owned = {}
           THEN /\ last.status = 404
                /\ last.msg = WishlistNotFound
                /\ last.body = {}
                /\ StoreAsFound
           ELSE IF last.op = "deleteWishlist"
           THEN /\ last.status = 204
                /\ wishlists = last.pre.wishlists \ owned
           ELSE /\ last.status = 200
                /\ wishlists = (last.pre.wishlists \ owned) \cup last.body
                /\ \A w \in last.body :
                      w.id = last.id /\ w.userId = last.user
                /\ items = last.pre.items
                /\ claims = last.pre.claims

\* another user's update of an existing wishlist with claimed items has
\* just been answered 404
OthersWishlistUpdateRefused ==
    /\ last.op = "updateWishlist"
    /\ last.status = 404
    /\ \E w \in wishlists : w.id = last.id /\ w.userId # last.user
    /\ claims # {}

\* C12: items are created, updated and deleted by requests of the owner of
\* their wishlist only: a create, update or delete of another user changes
\* nothing and is answered 404, as for a wishlist or item that does not
\* exist.
ItemMutationOwnerOnly ==
    /\ (last.op \in {"updateItem", "deleteItem"}) =>
          LET owned == {it \in last.pre.items :
                           /\ it.id = last.id
                           /\ \E w \in last.pre.wishlists :
                                 /\ w.id = it.wishlistId
                                 /\ w.userId = last.user}
          IN IF last.status = 400
             THEN last.op = "updateItem" /\ StoreAsFound
             ELSE IF owned = {}
             THEN /\ last.status = 404
                  /\ last.msg = ItemNotFound
                  /\ last.body = {}
                  /\ StoreAsFound
             ELSE /\ last.status \in {200, 204}
                  /\ wishlists = last.pre.wishlists
                  /\ \A it \in items :
                        it \in last.pre.items \/ it \in last.body
    /\ (last.op = "createItem") =>
          LET owned == {w \in last.pre.wishlists :
                           w.id = last.id /\ w.userId = last.user}
              exists == \E w \in last.pre.wishlists : w.id = last.id
          IN /\ last.status = 201 =>
                  /\ owned # {}
                  /\ items = last.pre.items \cup last.body
                  /\ \A it \in last.body : it.wishlistId = last.id
             /\ last.status # 201 => StoreAsFound
             /\ (owned = {} /\ exists) =>
                  (last.status = 404 /\ last.msg = WishlistNotFound)
             /\ ~exists =>
                  \/ last.status = 404 /\ last.msg = WishlistNotFound
                  \/ last.status = 500 /\ last.err = "fk"

\* another user's delete of an existing, claimed item has just been
\* answered 404
OthersItemDeleteRefused ==
    /\ last.op = "deleteItem"
    /\ last.status = 404
    /\ \E it \in items : \E w \in wishlists : \E c \in claims :
          /\ it.id = last.id
          /\ w.id = it.wishlistId
          /\ w.userId # last.user
          /\ c.itemId = it.id

\* ------------------------------------------------------- reads
\* C13: GET /api/wishlists/:id of a signed-in user who does not own the
\* wishlist is answered 404, and every 404 of the route is one and the same
\* response, whether a wishlist of another user has the id or none has.
ReadByOtherUserNotFound ==
    (last.op = "getWishlist" /\ last.user # Anonymous) =>
        /\ last.status \in {200, 404}
        /\ last.status = 404 =>
              /\ last.msg = WishlistNotFound
              /\ last.body = {}
              /\ last.err = "none"
        /\ (\E w \in last.pre.wishlists :
               w.id = last.id /\ w.userId # last.user) => last.status = 404
        /\ \A b \in last.body :
              b.wishlist.id = last.id /\ b.wishlist.userId = last.user

\* the read of another user's existing wishlist has just been answered 404
OthersWishlistReadRefused ==
    /\ last.op = "getWishlist"
    /\ last.status = 404
    /\ \E w \in wishlists : w.id = last.id /\ w.userId # last.user

\* C14: the itemCount and claimedCount the list returns for a wishlist are
\* the counts of one store state the request read: when the second count
\* query of a wishlist runs, either the item count read before is still
\* the wishlist's item count, or the claimed count is what it was when the
\* item count was read.
ListCountsFromOneState ==
    [][\A r \in {x \in Requests : x.op = "listWishlists"} :
         \A h \in r.held :
           ( /\ h.pc = "claimedCount"
             /\ CopiesIn(r, inflight') < CopiesIn(r, inflight)
             /\ \A m \in BagToSet(inflight' (-) inflight) :
                   m.op = "listWishlists" => h \notin m.held )
           => \/ h.itemCount =
                   Cardinality({it \in items :
                                   it.wishlistId = h.wishlist.id})
              \/ h.claimedThen =
                   Cardinality({c \in claims : \E it \in items :
                                   /\ it.id = c.itemId
                                   /\ it.wishlistId = h.wishlist.id})]_vars

\* C15: the shared route answers without an identity; it answers 404 only
\* when no wishlist has the token, and otherwise 200 with the wishlist of
\* that token, every item of it and, for every claimed item, the claim row
\* with the claimant's user row, whole.
SharedReadIsFull ==
    (last.op = "getShared") =>
        /\ last.user = Anonymous
        /\ last.status \in {200, 404}
        /\ last.status = 404 =>
              /\ last.body = {}
              /\ \A w \in last.pre.wishlists : w.shareToken # last.id
        /\ last.status = 200 =>
              /\ last.body # {}
              /\ \A b \in last.body :
                    /\ b.wishlist.shareToken = last.id
                    /\ {e.item : e \in b.items} =
                          {it \in last.pre.items :
                              it.wishlistId = b.wishlist.id}
                    /\ \A e \in b.items :
                          e.claim =
                            {[claim |-> c,
                              user |-> [id |-> c.userId,
                                        email |-> <<c.userId,
                                                    "example.org">>]] :
                                c \in {d \in last.pre.claims :
                                          d.itemId = e.item.id}}

\* a shared read has just returned a claimed item with its claimant
SharedReadShowsClaimant ==
    /\ last.op = "getShared"
    /\ last.status = 200
    /\ \E b \in last.body : \E e \in b.items : \E x \in e.claim :
          x.user.id = x.claim.userId

\* C16 as stated: once a wishlist is deleted every shared read of its
\* share token is answered 404: the token resolves neither to the deleted
\* wishlist nor to another one.
RetiredTokenNeverResolves ==
    (/\ last.op = "getShared"
     /\ \E d \in retired : d.token = last.id) => last.status = 404

\* C16: a deleted wishlist never comes back, and its share token is held
\* again only by a wishlist created later with the same token.  A lookup
\* of a token goes on to the join only with the wishlists that have the
\* token in the store it reads, and at least one: so a lookup of the
\* token of a deleted wishlist, while no wishlist has drawn the token
\* again, does not go on and is answered 404.  A shared read is answered
\* by its lookup with 404, when no wishlist has the token, or by its join
\* with 200 and the wishlist its lookup found.
RetiredTokenUnresolvedUntilRedrawn ==
    [][/\ \A d \in retired' : \A w \in wishlists' :
             /\ w.id # d.id
             /\ w.shareToken = d.token => w.id > d.id
       /\ \A r \in BagToSet(inflight' (-) inflight) :
             (r.op = "getShared") =>
                /\ r.held # {}
                /\ r.held = {w \in wishlists : w.shareToken = r.id}
                /\ \A d \in retired :
                      d.token = r.id => \E w \in wishlists :
                                           /\ w.shareToken = d.token
                                           /\ w.id > d.id
       /\ (last'.op = "getShared" /\ last.op = "none") =>
             IF \E o \in BagToSet(inflight (-) inflight') :
                   o.op = "getShared"
             THEN /\ last'.status = 200
                  /\ \E o \in BagToSet(inflight (-) inflight') :
                        /\ o.op = "getShared"
                        /\ o.id = last'.id
                        /\ {b.wishlist : b \in last'.body} = o.held
             ELSE /\ last'.status = 404
                  /\ \A w \in wishlists : w.shareToken # last'.id]_vars

\* the token of a deleted wishlist has just been answered 404
RetiredTokenAnswered404 ==
    /\ last.op = "getShared"
    /\ last.status = 404
    /\ \E d \in retired : d.token = last.id

\* C17: no step changes the share token of a wishlist that stays, whatever
\* the body of an update carries, and after every step no two wishlists
\* have the same share token.
ShareTokenFixedAndUnique ==
    [][/\ \A w \in wishlists : \A x \in wishlists' :
             x.id = w.id => x.shareToken = w.shareToken
       /\ \A x \in wishlists' : \A y \in wishlists' :
             x.shareToken = y.shareToken => x.id = y.id]_vars

\* a wishlist has just been renamed beside another one: it has the token
\* it had, and the other wishlist has another
RenamedWithItsToken ==
    /\ last.op = "updateWishlist"
    /\ last.status = 200
    /\ \E w \in last.pre.wishlists : \E b \in last.body :
          /\ w.id = last.id
          /\ b.name # w.name
          /\ b.shareToken = w.shareToken
          /\ \E o \in wishlists : o.id # b.id /\ o.shareToken # b.shareToken

\* C18 as stated: a createWishlist whose insert is rejected for its share
\* token inserts once more with a new token before it reports the failure,
\* so a request that reports the collision has made two inserts (each takes
\* a value of the id sequence).
CollisionRetriedOnce ==
    [][(/\ last'.op = "createWishlist"
        /\ last'.err = "unique") => seqW' = seqW + 2]_vars

\* C19: a request without a session on any route but the share link is
\* answered 401 with nothing in the body and the store as it found it; no
\* such request is ever suspended inside a handler, and no claim row has no
\* user.
UnauthenticatedRefused ==
    /\ (/\ last.op \in Routes \ {"getShared"}
        /\ last.user = Anonymous) =>
          /\ last.status = 401
          /\ last.body = {}
          /\ <<wishlists, items, claims>> =
                <<last.pre.wishlists, last.pre.items, last.pre.claims>>
    /\ \A r \in Requests : r.user = Anonymous => r.op = "getShared"
    /\ \A c \in claims : c.userId # Anonymous

\* a claim request without a session has just been refused while there is
\* an unclaimed item to claim
AnonymousClaimRefused ==
    /\ last.op = "claim"
    /\ last.user = Anonymous
    /\ last.status = 401
    /\ \E it \in items : \A c \in claims : c.itemId # it.id

\* C20 as stated: without a session the share link is answered, and so is
\* a claim: a claim request without a session is answered 201 when there
\* is an unclaimed item.
LinkHolderViewsAndClaims ==
    /\ (last.op = "getShared") => last.status \in {200, 404}
    /\ (/\ last.op = "claim"
        /\ last.user = Anonymous
        /\ \E it \in last.pre.items :
              \A c \in last.pre.claims : c.itemId # it.id) =>
          last.status = 201

\* C20: without a session the share link is answered (200, or 404 when no
\* wishlist has the token, never 401), but a claim is not: a claim request
\* without a session is answered 401 and adds no claim, and every claim
\* that is answered 201 is a signed-in user's.
LinkHolderViewsButSignsInToClaim ==
    /\ (last.op = "getShared") =>
          /\ last.user = Anonymous
          /\ last.status \in {200, 404}
          /\ last.status = 404 =>
                \A w \in last.pre.wishlists : w.shareToken # last.id
    /\ (last.op = "claim" /\ last.user = Anonymous) =>
          /\ last.status = 401
          /\ claims = last.pre.claims
    /\ (last.op = "claim" /\ last.status = 201) => last.user \in Users

\* the share link has just shown an unclaimed item without a session
LinkShowsUnclaimedItem ==
    /\ last.op = "getShared"
    /\ last.user = Anonymous
    /\ last.status = 200
    /\ \E b \in last.body : \E e \in b.items : e.claim = {}

\* C21 as stated: a claim request that is answered while the item is not
\* in the store, never there or deleted since the request's existence
\* check, is answered 404 and adds no claim.
ClaimOnMissingItemIsNotFound ==
    (/\ last.op = "claim"
     /\ last.user # Anonymous
     /\ \A it \in last.pre.items : it.id # last.id) =>
        /\ last.status = 404
        /\ claims = last.pre.claims

\* C22: a claim request of a signed-in user that is answered while the
\* item exists, has no claim and is in a wishlist of somebody else (which
\* is so at every statement of a request that runs with no other request
\* on the item) is answered 201 with the new claim row, of that item and
\* that user; the row is the only thing added and the item's only claim.
UncontendedClaimSucceeds ==
    (/\ last.op = "claim"
     /\ last.user # Anonymous
     /\ \E it \in last.pre.items : it.id = last.id
     /\ \A c \in last.pre.claims : c.itemId # last.id
     /\ \A it \in last.pre.items : \A w \in last.pre.wishlists :
           (it.id = last.id /\ w.id = it.wishlistId) => w.userId # last.user) =>
        /\ last.status = 201
        /\ Cardinality(last.body) = 1
        /\ \A row \in last.body :
              row.itemId = last.id /\ row.userId = last.user
        /\ claims = last.pre.claims \cup last.body
        /\ {c.userId : c \in {d \in claims : d.itemId = last.id}} =
              {last.user}
        /\ Cardinality({d \in claims : d.itemId = last.id}) = 1

\* a user who does not own the wishlist has just claimed an item that
\* exists and had no claim
NonOwnerClaimed ==
    /\ last.op = "claim"
    /\ last.status = 201
    /\ \E it \in last.pre.items : \E w \in last.pre.wishlists :
          /\ it.id = last.id
          /\ w.id = it.wishlistId
          /\ w.userId # last.user
    /\ \A c \in last.pre.claims : c.itemId # last.id
    /\ \E c \in claims : c.itemId = last.id /\ c.userId = last.user

\* C23 as stated: nothing takes effect between the ownership check of an
\* item mutation and its write: a create-item request that has passed its
\* check still finds the requester's wishlist when it inserts, and
\* create-item is answered 201, 400, 401 or 404 only.
ItemOwnershipCheckAtomic ==
    /\ \A r \in Requests :
          r.op = "createItem" =>
             \E w \in wishlists : w.id = r.id /\ w.userId = r.user
    /\ (last.op = "createItem") => last.status \in {201, 400, 401, 404}

\* C24: no step changes the wishlistId of an item that stays, whatever
\* the body of an update carries, and after every step an item id names
\* one row, of one wishlist.
ItemWishlistFixed ==
    [][/\ \A it \in items : \A x \in items' :
             x.id = it.id => x.wishlistId = it.wishlistId
       /\ \A x \in items' : \A y \in items' : x.id = y.id => x = y]_vars

\* an item has just been renamed while there is another wishlist it could
\* have moved to: it is in the wishlist it was in
RenamedInItsWishlist ==
    /\ last.op = "updateItem"
    /\ last.status = 200
    /\ \E it \in last.pre.items : \E b \in last.body :
          /\ it.id = last.id
          /\ b.name # it.name
          /\ b.wishlistId = it.wishlistId
          /\ \E w \in wishlists : w.id # b.wishlistId

\* C25: a created wishlist has the requester for its owner, and no step
\* changes the owner of a wishlist that stays, whatever the body of an
\* update carries.
WishlistOwnerFixed ==
    [][/\ \A w \in wishlists : \A x \in wishlists' :
             x.id = w.id => x.userId = w.userId
       /\ \A x \in wishlists' :
             (\A w \in wishlists : w.id # x.id) =>
                /\ last'.op = "createWishlist"
                /\ x.userId = last'.user]_vars

\* a wishlist has just been renamed by its owner while another user has a
\* wishlist too: it is still the requester's
RenamedWithItsOwner ==
    /\ last.op = "updateWishlist"
    /\ last.status = 200
    /\ \E w \in last.pre.wishlists : \E b \in last.body :
          /\ w.id = last.id
          /\ b.name # w.name
          /\ b.userId = w.userId
          /\ b.userId = last.user
          /\ \E o \in wishlists : o.userId # b.userId

\* C26 as stated: in every response of the list, claimedCount is at most
\* itemCount for each wishlist.
ClaimedCountAtMostItemCount ==
    (last.op = "listWishlists" /\ last.status = 200) =>
        \A b \in last.body : b.claimedCount <= b.itemCount

\* C27: a wishlist is found by its id and owner and by its share token
\* alike, and a 200 of either read route is one and the same function of
\* the wishlist row the route looked up and of the store its join found:
\* the row, every item of that wishlist, and for every item its claim with
\* the claimant's user row.
OwnerAndSharedReadAgree ==
    /\ \A w \in wishlists :
          {x \in wishlists : x.id = w.id /\ x.userId = w.userId} =
             {x \in wishlists : x.shareToken = w.shareToken}
    /\ (last.op \in {"getWishlist", "getShared"} /\ last.status = 200) =>
          /\ Cardinality(last.body) = 1
          /\ \A b \in last.body :
                /\ IF last.op = "getWishlist"
                   THEN b.wishlist.id = last.id /\ b.wishlist.userId = last.user
                   ELSE b.wishlist.shareToken = last.id
                /\ b.items =
                     {[item |-> it,
                       claim |-> {[claim |-> c,
                                   user |-> [id |-> c.userId,
                                             email |-> <<c.userId,
                                                         "example.org">>]] :
                                     c \in {d \in last.pre.claims :
                                               d.itemId = it.id}}] :
                         it \in {x \in last.pre.items :
                                    x.wishlistId = b.wishlist.id}}

\* the owner has just read the wishlist with a claimed item and its
\* claimant, as the share link shows it
OwnerReadShowsClaimant ==
    /\ last.op = "getWishlist"
    /\ last.status = 200
    /\ \E b \in last.body : \E e \in b.items : \E x \in e.claim :
          /\ x.claim.itemId = e.item.id
          /\ x.user.id = x.claim.userId
          /\ x.user.id # last.user

\* C28: the list of user u starts from exactly the wishlists whose owner
\* is u in the store its select finds, each once; the count queries that
\* follow keep those wishlists, and the response names them and no other.
ListIsOwnWishlists ==
    [][/\ \A r \in BagToSet(inflight' (-) inflight) :
             (r.op = "listWishlists") =>
                IF \A h \in r.held : h.pc = "itemCount"
                THEN /\ {h.wishlist : h \in r.held} =
                           {w \in wishlists : w.userId = r.user}
                     /\ Cardinality(r.held) =
                           Cardinality({w \in wishlists : w.userId = r.user})
                ELSE \E o \in BagToSet(inflight (-) inflight') :
                        /\ o.op = "listWishlists"
                        /\ o.user = r.user
                        /\ {h.wishlist : h \in r.held} =
                              {h.wishlist : h \in o.held}
       /\ (/\ last'.op = "listWishlists"
           /\ last'.status = 200
           /\ last.op = "none") =>
             IF last'.body = {}
             THEN \A w \in wishlists : w.userId # last'.user
             ELSE \E o \in BagToSet(inflight (-) inflight') :
                     /\ o.op = "listWishlists"
                     /\ o.user = last'.user
                     /\ {b.wishlist : b \in last'.body} =
                           {h.wishlist : h \in o.held}
                     /\ Cardinality(last'.body) = Cardinality(o.held)
                     /\ \A b \in last'.body : b.wishlist.userId = last'.user]_vars

\* a user has just been answered an empty list while another user has a
\* wishlist
OthersWishlistNotListed ==
    /\ last.op = "listWishlists"
    /\ last.status = 200
    /\ last.body = {}
    /\ \E w \in wishlists : w.userId # last.user

\* C29: a step that changes the wishlists, the items or the claims is the
\* responding statement of a request answered 200, 201 or 204: no step
\* that answers 400, 401, 404 or 500, and no statement before a response,
\* changes them.
OnlySuccessChangesStore ==
    [][<<wishlists', items', claims'>> # <<wishlists, items, claims>> =>
          last'.status \in {200, 201, 204}]_vars

\* a claim request has just been answered 500 for an item deleted under
\* it, and the store, with the item that is left, is as its insert found it
FailedInsertChangedNothing ==
    /\ last.op = "claim"
    /\ last.status = 500
    /\ last.err = "fk"
    /\ last.pre.items # {}
    /\ <<wishlists, items, claims>> =
          <<last.pre.wishlists, last.pre.items, last.pre.claims>>

\* C30: a claim answered 201 adds one claim, of its item, and an unclaim
\* answered 204 removes one claim, of its item; the claims of every other
\* item, the items and the wishlists are as the statement found them.
ClaimTouchesOnlyItsClaim ==
    /\ (last.op = "claim" /\ last.status = 201) =>
          /\ wishlists = last.pre.wishlists
          /\ items = last.pre.items
          /\ last.pre.claims \subseteq claims
          /\ Cardinality(claims \ last.pre.claims) = 1
          /\ \A c \in claims \ last.pre.claims : c.itemId = last.id
    /\ (last.op = "unclaim" /\ last.status = 204) =>
          /\ wishlists = last.pre.wishlists
          /\ items = last.pre.items
          /\ claims \subseteq last.pre.claims
          /\ Cardinality(last.pre.claims \ claims) = 1
          /\ \A c \in last.pre.claims \ claims : c.itemId = last.id

\* a user has just unclaimed one item and still has the claim on another
UnclaimedOneOfTwo ==
    /\ last.op = "unclaim"
    /\ last.status = 204
    /\ \E c \in claims : c.itemId # last.id /\ c.userId = last.user
    /\ \E it \in items : it.id = last.id

====
